---- MODULE Spec2Model ----
(***************************************************************************)
(* Model of the snaps UI component schema (snaps-ui nodes) and of the      *)
(* interface state reducer constructState (snaps-controllers).             *)
(*                                                                         *)
(* A raw, untrusted value is validated against ComponentStruct; a value    *)
(* that validates is reduced, together with a seed ComponentState, to a    *)
(* new ComponentState; the reducer is then applied once more to its own    *)
(* output.                                                                 *)
(*                                                                         *)
(* Raw values are records with the fields type, name, value and children.  *)
(* A field that is missing from the JavaScript object has the value        *)
(* Undefined (name, value) or hasChildren = FALSE (children).  The         *)
(* optional presentation fields variant, buttonType, inputType,            *)
(* placeholder and label are never read by constructState and are left     *)
(* out of the raw values.                                                  *)
(*                                                                         *)
(* A ComponentState is a function from its keys to entries; an entry is    *)
(* either a string (isMap = FALSE, str) or a nested mapping (isMap = TRUE, *)
(* map).                                                                   *)
(***************************************************************************)
EXTENDS Integers, Sequences, FiniteSets, TLC

VARIABLES content, pc, seed, result, second

vars == <<content, pc, seed, result, second>>

\* Largest number of nodes of a nested raw tree.
MaxNodes == 5

\* A field that is not present on the object.
Undefined == "<undefined>"

Names == {"a", "b"}

Values == {"x", "y"}

NodeType == {"copyable", "divider", "heading", "panel", "spinner", "text",
             "button", "input", "form"}

\* The type tags a raw value may carry: the known ones and an unknown one.
Tags == NodeType \cup {"bogus"}

Node(type, name, value, hasChildren, children) ==
  [type |-> type, name |-> name, value |-> value,
   hasChildren |-> hasChildren, children |-> children]

----------------------------------------------------------------------------
(* ComponentState *)

EmptyState == [k \in {} |-> FALSE]

Str(s) == [isMap |-> FALSE, str |-> s, map |-> EmptyState]

Map(m) == [isMap |-> TRUE, str |-> "", map |-> m]

\* { ...state, [key]: entry }
Spread(state, key, entry) ==
  [k \in (DOMAIN state) \cup {key} |-> IF k = key THEN entry ELSE state[k]]

----------------------------------------------------------------------------
(* Node schema: superstruct structs as predicates on raw values.           *)
(* object() requires every key of its schema (unless optional()) and       *)
(* rejects every key outside it; assign() merges schemas, the later        *)
(* schema's keys winning; array(S) requires an array whose entries all     *)
(* satisfy S.                                                              *)

\* string(): the field is present (every present field of a raw value is a
\* string).
string(x) == x # Undefined

\* A key outside the schema must not be present.
never(x) == x = Undefined

literal(x, c) == x = c

RECURSIVE ComponentStruct(_)

NodeStruct(v) ==
  /\ string(v.type)
  /\ never(v.name) /\ never(v.value) /\ ~v.hasChildren

ParentStruct(v) ==
  /\ string(v.type)
  /\ v.hasChildren
  /\ \A i \in 1..Len(v.children) : ComponentStruct(v.children[i])
  /\ never(v.name) /\ never(v.value)

\* value: unknown() accepts anything, a missing value included.
LiteralStruct(v) ==
  /\ string(v.type)
  /\ never(v.name) /\ ~v.hasChildren

CopyableStruct(v) ==
  /\ literal(v.type, "copyable")
  /\ string(v.value)
  /\ never(v.name) /\ ~v.hasChildren

DividerStruct(v) ==
  /\ literal(v.type, "divider")
  /\ never(v.name) /\ never(v.value) /\ ~v.hasChildren

HeadingStruct(v) ==
  /\ literal(v.type, "heading")
  /\ string(v.value)
  /\ never(v.name) /\ ~v.hasChildren

PanelStruct(v) ==
  /\ literal(v.type, "panel")
  /\ v.hasChildren
  /\ \A i \in 1..Len(v.children) : ComponentStruct(v.children[i])
  /\ never(v.name) /\ never(v.value)

SpinnerStruct(v) ==
  /\ literal(v.type, "spinner")
  /\ never(v.name) /\ never(v.value) /\ ~v.hasChildren

TextStruct(v) ==
  /\ literal(v.type, "text")
  /\ string(v.value)
  /\ never(v.name) /\ ~v.hasChildren

\* name: optional(string())
ButtonStruct(v) ==
  /\ literal(v.type, "button")
  /\ string(v.value)
  /\ ~v.hasChildren

\* value: optional(string()), name: string()
InputStruct(v) ==
  /\ literal(v.type, "input")
  /\ string(v.name)
  /\ ~v.hasChildren

FormComponentStruct(v) == InputStruct(v) \/ ButtonStruct(v)

\* children: array(ComponentStruct), as a Parent's children are
FormStructAnyChildren(v) ==
  /\ literal(v.type, "form")
  /\ v.hasChildren
  /\ \A i \in 1..Len(v.children) : ComponentStruct(v.children[i])
  /\ string(v.name)
  /\ never(v.value)

FormStruct(v) ==
  /\ literal(v.type, "form")
  /\ v.hasChildren
  /\ \A i \in 1..Len(v.children) : FormComponentStruct(v.children[i])
  /\ string(v.name)
  /\ never(v.value)

\* An open union: any node that is a plain NodeStruct is accepted as well.
ComponentStructOpen(v) ==
  \/ CopyableStruct(v)
  \/ DividerStruct(v)
  \/ HeadingStruct(v)
  \/ PanelStruct(v)
  \/ SpinnerStruct(v)
  \/ TextStruct(v)
  \/ ButtonStruct(v)
  \/ InputStruct(v)
  \/ FormStruct(v)
  \/ NodeStruct(v)

ComponentStruct(v) ==
  \/ CopyableStruct(v)
  \/ DividerStruct(v)
  \/ HeadingStruct(v)
  \/ PanelStruct(v)
  \/ SpinnerStruct(v)
  \/ TextStruct(v)
  \/ ButtonStruct(v)
  \/ InputStruct(v)
  \/ FormStruct(v)

----------------------------------------------------------------------------
(* State reducer *)

RECURSIVE constructState(_, _)

RECURSIVE reduce(_, _)

\* children.reduce((acc, node) => constructState(acc, node), initial)
reduce(children, initial) ==
  IF children = <<>>
    THEN initial
    ELSE reduce(Tail(children), constructState(initial, Head(children)))

RECURSIVE reduceRight(_, _)

\* The same fold taken from the last child to the first.
reduceRight(children, initial) ==
  IF children = <<>>
    THEN initial
    ELSE constructState(reduceRight(Tail(children), initial), Head(children))

PanelStateRightToLeft(state, component) ==
  reduceRight(component.children, state)

\* type === NodeType.Panel
PanelState(state, component) ==
  reduce(component.children, state)

\* The nested fold seeded with the outer accumulator instead of {}.
FormStateFromOuter(state, component) ==
  Spread(state, component.name, Map(reduce(component.children, state)))

\* The result without the spread of the outer accumulator.
FormStateNoSpread(state, component) ==
  Spread(EmptyState, component.name,
         Map(reduce(component.children, EmptyState)))

\* The children folded into the outer accumulator, with no nested mapping.
FormStateFlattened(state, component) ==
  reduce(component.children, state)

\* type === NodeType.Form
FormState(state, component) ==
  Spread(state, component.name, Map(reduce(component.children, EmptyState)))

\* component.value stored as it is, without the ?? '' default.
InputStateNoDefault(state, component) ==
  Spread(state, component.name, Str(component.value))

\* type === NodeType.Input
InputState(state, component) ==
  Spread(state, component.name,
         Str(IF component.value = Undefined THEN "" ELSE component.value))

\* A named Button stores its value the way an Input does.
constructStateNamedButton(state, component) ==
  IF component.type = "panel" THEN PanelState(state, component)
  ELSE IF component.type = "form" THEN FormState(state, component)
  ELSE IF component.type = "input" THEN InputState(state, component)
  ELSE IF component.type = "button" /\ component.name # Undefined
    THEN InputState(state, component)
  ELSE state

constructState(state, component) ==
  IF component.type = "panel" THEN PanelState(state, component)
  ELSE IF component.type = "form" THEN FormState(state, component)
  ELSE IF component.type = "input" THEN InputState(state, component)
  ELSE state

----------------------------------------------------------------------------
(* Inputs: raw values and seed states *)

\* Every raw value without children: each tag with each choice of name and
\* value, present or missing.
FlatNodes ==
  { Node(t, n, v, FALSE, <<>>) :
      t \in Tags, n \in Names \cup {Undefined}, v \in Values \cup {Undefined} }

\* The raw values without children that occur below a parent.
ChildLeaves ==
  { Node("text", Undefined, "x", FALSE, <<>>),
    Node("button", "a", "x", FALSE, <<>>),
    Node("input", "a", "x", FALSE, <<>>),
    Node("input", "a", Undefined, FALSE, <<>>),
    Node("input", "b", "y", FALSE, <<>>),
    Node("bogus", Undefined, Undefined, FALSE, <<>>) }

\* The raw values with the given children.
Parents(children) ==
  { Node("panel", Undefined, Undefined, TRUE, children),
    Node("form", "a", Undefined, TRUE, children) }

RECURSIVE TreesOfSize(_)

RECURSIVE Forest(_)

\* The sequences of raw trees with n nodes in all.
Forest(n) ==
  IF n = 0
    THEN {<<>>}
    ELSE UNION { { <<t>> \o f : t \in TreesOfSize(k), f \in Forest(n - k) } :
                 k \in 1..n }

\* The raw trees with exactly n nodes.
TreesOfSize(n) ==
  IF n = 1
    THEN ChildLeaves \cup Parents(<<>>)
    ELSE UNION { Parents(f) : f \in Forest(n - 1) }

SeedKeys == {"a", "c"}

SeedEntries == { Str("s"), Map([k \in {"c"} |-> Str("s")]) }

\* The seed states: strings and mappings of strings under some of SeedKeys.
Seeds ==
  UNION { [K -> SeedEntries] : K \in SUBSET SeedKeys }

----------------------------------------------------------------------------
(* The program: validate, derive, derive again *)

\* The content is any flat raw value or any raw tree of at most MaxNodes nodes.
Init ==
  /\ \/ content \in FlatNodes \cup TreesOfSize(1)
     \/ \E n \in 2..MaxNodes : \E k \in 1..(n - 1) :
          \E t \in TreesOfSize(k), f \in Forest(n - 1 - k) :
            content \in Parents(<<t>> \o f)
  /\ pc = "raw"
  /\ seed = EmptyState
  /\ result = EmptyState
  /\ second = EmptyState

\* is(content, ComponentStruct)
Validate ==
  /\ pc = "raw"
  /\ pc' = IF ComponentStruct(content) THEN "valid" ELSE "rejected"
  /\ UNCHANGED <<content, seed, result, second>>

\* result = constructState(seed, content)
Construct ==
  /\ pc = "valid"
  /\ \E s \in Seeds :
       /\ seed' = s
       /\ result' = constructState(s, content)
  /\ pc' = "derived"
  /\ UNCHANGED <<content, second>>

\* second = constructState(result, content)
Reconstruct ==
  /\ pc = "derived"
  /\ second' = constructState(result, content)
  /\ pc' = "rederived"
  /\ UNCHANGED <<content, seed, result>>

Next == Validate \/ Construct \/ Reconstruct

Spec == Init /\ [][Next]_vars

----------------------------------------------------------------------------
(* Properties *)

Derived == pc \in {"derived", "rederived"}

IndicesOf(children) == 1..Len(children)

\* The string an Input stores.
StoredValue(input) == IF input.value = Undefined THEN "" ELSE input.value

\* The names of the Input nodes among the children.
InputNames(children) ==
  { children[i].name : i \in { j \in IndicesOf(children) : children[j].type = "input" } }

RECURSIVE OuterKeys(_)

\* The names of the Inputs and Forms a tree holds at the outer scope: the node
\* itself or, through Panels, its descendants.
OuterKeys(v) ==
  IF v.type \in {"input", "form"} THEN {v.name}
  ELSE IF v.type = "panel"
    THEN UNION { OuterKeys(v.children[i]) : i \in IndicesOf(v.children) }
  ELSE {}

RECURSIVE HasRestrictedForm(_)

\* The tree is, or holds below Panels, a Form with a child that is neither an
\* Input nor a Button.
HasRestrictedForm(v) ==
  \/ /\ v.type = "form"
     /\ \E i \in IndicesOf(v.children) : v.children[i].type \notin {"input", "button"}
  \/ /\ v.type = "panel"
     /\ \E i \in IndicesOf(v.children) : HasRestrictedForm(v.children[i])

RECURSIVE HasUnknownTag(_)

\* The tree is, or holds below Panels, a node whose tag is not a NodeType.
HasUnknownTag(v) ==
  \/ v.type \notin NodeType
  \/ /\ v.type = "panel"
     /\ \E i \in IndicesOf(v.children) : HasUnknownTag(v.children[i])

\* Every entry is a string or a mapping whose entries are all strings.
FlatShape(state) ==
  \A k \in DOMAIN state :
    state[k].isMap => \A j \in DOMAIN state[k].map : ~state[k].map[j].isMap

\* C1: constructState(seed, form) stores under form.name a nested mapping whose
\* keys are exactly the names of the Form's Input children; Buttons add no key
\* and no key of the seed leaks into the nested mapping.
C1_FormKeys ==
  (Derived /\ content.type = "form") =>
    /\ content.name \in DOMAIN result
    /\ result[content.name].isMap
    /\ DOMAIN result[content.name].map = InputNames(content.children)

\* A Form with an Input and a named Button, derived over a seed that already
\* holds a mapping with another key under the Form's name.
C1_Witness ==
  /\ pc = "derived"
  /\ content.type = "form"
  /\ \E i, j \in IndicesOf(content.children) :
       /\ content.children[i].type = "input"
       /\ content.children[j].type = "button"
       /\ content.children[j].name # Undefined
  /\ content.name \in DOMAIN seed
  /\ seed[content.name].isMap
  /\ "c" \in DOMAIN seed[content.name].map
  /\ DOMAIN result[content.name].map = {"a"}

\* C2: constructState(seed, input) holds the key input.name, mapped to
\* input.value when given and to the empty string when the value is omitted.
C2_InputDefault ==
  (Derived /\ content.type = "input") =>
    /\ content.name \in DOMAIN result
    /\ ~result[content.name].isMap
    /\ result[content.name].str # Undefined
    /\ result[content.name].str =
         (IF content.value = Undefined THEN "" ELSE content.value)

\* An Input without a value, derived: its key holds the empty string.
C2_Witness ==
  /\ pc = "derived"
  /\ content.type = "input"
  /\ content.value = Undefined
  /\ result[content.name].str = ""

\* C3: a Panel's children are folded left to right: of two Input children with
\* the same name, the later one decides the value of that name (when no child
\* after it writes the name again).
C3_LaterChildWins ==
  (Derived /\ content.type = "panel") =>
    \A i, j \in IndicesOf(content.children) :
      ( /\ i < j
        /\ content.children[i].type = "input"
        /\ content.children[j].type = "input"
        /\ content.children[i].name = content.children[j].name
        /\ \A k \in IndicesOf(content.children) :
             k > j => content.children[j].name \notin OuterKeys(content.children[k]) )
      => result[content.children[j].name] = Str(StoredValue(content.children[j]))

\* A Panel of two Inputs with one name and different values, derived: the
\* name holds the second value.
C3_Witness ==
  /\ pc = "derived"
  /\ content.type = "panel"
  /\ Len(content.children) = 2
  /\ content.children[1].type = "input"
  /\ content.children[2].type = "input"
  /\ content.children[1].name = content.children[2].name
  /\ StoredValue(content.children[1]) # StoredValue(content.children[2])
  /\ content.children[1].name \in DOMAIN seed
  /\ result[content.children[2].name].str = StoredValue(content.children[2])

\* C4: constructState never deletes a key of the seed, and a seed key that is
\* not the name of an Input or Form visited at the outer scope keeps its value.
C4_SeedPreserved ==
  Derived =>
    /\ DOMAIN seed \subseteq DOMAIN result
    /\ \A k \in (DOMAIN seed) \ OuterKeys(content) : result[k] = seed[k]

\* A tree with a Form below a Panel overwrites one seed key and leaves the
\* other seed key as it was.
C4_Witness ==
  /\ pc = "derived"
  /\ content.type = "panel"
  /\ \E i \in IndicesOf(content.children) : content.children[i].type = "form"
  /\ DOMAIN seed = {"a", "c"}
  /\ OuterKeys(content) = {"a"}
  /\ result["a"] # seed["a"]
  /\ result["c"] = seed["c"]

\* C5: for a Divider, Spinner, Copyable, Heading, Text or Button (named or
\* not) constructState returns the seed unchanged.
C5_NoStateEffect ==
  ( /\ Derived
    /\ content.type \in {"divider", "spinner", "copyable", "heading", "text", "button"} )
  => result = seed

\* A named Button derived over a seed that holds a key: nothing changes.
C5_Witness ==
  /\ pc = "derived"
  /\ content.type = "button"
  /\ content.name # Undefined
  /\ seed # EmptyState
  /\ result = seed

C7_ClosedUnion ==
  HasUnknownTag(content) => pc \in {"raw", "rejected"}

\* An unknown tag two Panels below the root is rejected.
C7_Witness ==
  /\ pc = "rejected"
  /\ content.type = "panel"
  /\ \E i \in IndicesOf(content.children) :
       /\ content.children[i].type = "panel"
       /\ \E j \in IndicesOf(content.children[i].children) :
            content.children[i].children[j].type = "bogus"

\* C9: over a seed of strings and mappings of strings, the derived state is of
\* the same shape: no mapping holds a mapping, however deep the tree.
C9_FlatShape ==
  /\ (Derived /\ FlatShape(seed)) => FlatShape(result)
  /\ (pc = "rederived" /\ FlatShape(seed)) => FlatShape(second)

\* A Form with an Input, two Panels below the root, derived over a seed that
\* holds a mapping: the result holds the Form's non-empty mapping.
C9_Witness ==
  /\ pc = "derived"
  /\ content.type = "panel"
  /\ \E i \in IndicesOf(content.children) :
       /\ content.children[i].type = "panel"
       /\ \E j \in IndicesOf(content.children[i].children) :
            LET form == content.children[i].children[j]
            IN  /\ form.type = "form"
                /\ InputNames(form.children) # {}
  /\ \E k \in DOMAIN seed : seed[k].isMap
  /\ \E k \in DOMAIN result : result[k].isMap /\ DOMAIN result[k].map # {}

\* C10: applying constructState to its own output with the same tree changes
\* nothing.
C10_Reapply ==
  pc = "rederived" => second = result

\* A Panel with an Input and a Form of the same name, derived twice over a
\* seed it changes.
C10_Witness ==
  /\ pc = "rederived"
  /\ content.type = "panel"
  /\ \E i, j \in IndicesOf(content.children) :
       /\ content.children[i].type = "input"
       /\ content.children[j].type = "form"
       /\ content.children[i].name = content.children[j].name
  /\ seed # EmptyState
  /\ result # seed
  /\ second = result

====
